---- MODULE Spec2Model ----
(***************************************************************************)
(* A model of pbg.c, the Prefix Boolean Grammar parser, evaluator and      *)
(* renderer.  A C string is a sequence of one-character strings; C index i *)
(* is position i+1 of the sequence.  A node is a record [type, int, data], *)
(* the three fields _type, _int, _data of pbg_expr_node; data is the byte  *)
(* (or child reference) sequence the pointer refers to.                    *)
(***************************************************************************)
EXTENDS Integers, Sequences, FiniteSets, TLC

(***************************************************************************)
(* Characters and C-string access.                                         *)
(***************************************************************************)

\* The terminating byte of a C string; reads past the text see it.
NUL == "NUL"

\* str[i] of the C code, i counted from 0.
Ch(str, i) == IF i >= 0 /\ i < Len(str) THEN str[i + 1] ELSE NUL

Digits == {"0", "1", "2", "3", "4", "5", "6", "7", "8", "9"}

is_a_digit(c) == c \in Digits

DigitVal(c) ==
    CASE c = "0" -> 0 [] c = "1" -> 1 [] c = "2" -> 2 [] c = "3" -> 3
      [] c = "4" -> 4 [] c = "5" -> 5 [] c = "6" -> 6 [] c = "7" -> 7
      [] c = "8" -> 8 [] c = "9" -> 9 [] OTHER -> 0

DigitChar(d) ==
    CASE d = 0 -> "0" [] d = 1 -> "1" [] d = 2 -> "2" [] d = 3 -> "3"
      [] d = 4 -> "4" [] d = 5 -> "5" [] d = 6 -> "6" [] d = 7 -> "7"
      [] d = 8 -> "8" [] OTHER -> "9"

(***************************************************************************)
(* Lexical recognizers.  Each takes the whole text, the offset p of the    *)
(* field (the C code passes str+p) and the field's length n.               *)
(***************************************************************************)

pbg_toop(str, p, n) ==
    IF n = 1 THEN
        CASE Ch(str, p) = "!" -> "NOT"
          [] Ch(str, p) = "&" -> "AND"
          [] Ch(str, p) = "|" -> "OR"
          [] Ch(str, p) = "=" -> "EQ"
          [] Ch(str, p) = "<" -> "LT"
          [] Ch(str, p) = ">" -> "GT"
          [] Ch(str, p) = "?" -> "EXST"
          [] OTHER -> "UNKNOWN"
    ELSE IF n = 2 THEN
        CASE Ch(str, p) = "!" /\ Ch(str, p + 1) = "=" -> "NEQ"
          [] Ch(str, p) = "<" /\ Ch(str, p + 1) = "=" -> "LTE"
          [] Ch(str, p) = ">" /\ Ch(str, p + 1) = "=" -> "GTE"
          [] OTHER -> "UNKNOWN"
    ELSE "UNKNOWN"

pbg_istrue(str, p, n) ==
    /\ n = 4
    /\ Ch(str, p) = "T" /\ Ch(str, p + 1) = "R"
    /\ Ch(str, p + 2) = "U" /\ Ch(str, p + 3) = "E"

pbg_isfalse(str, p, n) ==
    /\ n = 5
    /\ Ch(str, p) = "F" /\ Ch(str, p + 1) = "A" /\ Ch(str, p + 2) = "L"
    /\ Ch(str, p + 3) = "S" /\ Ch(str, p + 4) = "E"

pbg_iskey(str, p, n) == Ch(str, p) = "[" /\ Ch(str, p + n - 1) = "]"

pbg_isstring(str, p, n) == Ch(str, p) = "'" /\ Ch(str, p + n - 1) = "'"

pbg_isdate(str, p, n) ==
    /\ n = 10
    /\ \A k \in {0, 1, 2, 3, 5, 6, 8, 9} : is_a_digit(Ch(str, p + k))
    /\ Ch(str, p + 4) = "-"
    /\ Ch(str, p + 7) = "-"

\* while(i != n && is_a_digit(str[i])) i++;
RECURSIVE SkipDigits(_, _, _, _)
SkipDigits(str, p, n, i) ==
    IF i # n /\ is_a_digit(Ch(str, p + i))
    THEN SkipDigits(str, p, n, i + 1)
    ELSE i

IsSign(c) == c = "-" \/ c = "+"
IsExp(c) == c = "e" \/ c = "E"

\* The exponent part of pbg_isnumber, entered with i at the position after
\* the integer and fraction parts.
IsNumberExp(str, p, n, i) ==
    IF IsExp(Ch(str, p + i)) THEN
        IF i = n - 1 THEN FALSE
        ELSE LET i1 == i + 1
                 i2 == IF IsSign(Ch(str, p + i1)) THEN i1 + 1 ELSE i1
                 i3 == SkipDigits(str, p, n, i2)
             IN  ~(i3 # n /\ ~is_a_digit(Ch(str, p + i3)))
    ELSE TRUE

\* The fraction part of pbg_isnumber.
IsNumberFrac(str, p, n, i) ==
    IF Ch(str, p + i) = "." THEN
        IF i = n - 1 THEN FALSE
        ELSE LET i1 == SkipDigits(str, p, n, i + 1)
             IN  IF i1 # n /\ ~is_a_digit(Ch(str, p + i1)) /\ ~IsExp(Ch(str, p + i1))
                 THEN FALSE
                 ELSE IsNumberExp(str, p, n, i1)
    ELSE IsNumberExp(str, p, n, i)

pbg_isnumber(str, p, n) ==
    LET c0 == Ch(str, p)
        i0 == IF IsSign(c0) THEN 1 ELSE 0
    IN  IF ~IsSign(c0) /\ ~is_a_digit(c0) THEN FALSE
        ELSE LET c == Ch(str, p + i0)
             IN  IF c # "0" /\ is_a_digit(c) THEN
                     LET i1 == SkipDigits(str, p, n, i0)
                     IN  IF i1 # n /\ ~is_a_digit(Ch(str, p + i1)) /\ Ch(str, p + i1) # "."
                         THEN FALSE
                         ELSE IsNumberFrac(str, p, n, i1)
                 ELSE IF c = "0" THEN
                     LET i1 == i0 + 1
                     IN  IF i1 # n /\ ~(Ch(str, p + i1) = "." \/ IsExp(Ch(str, p + i1)))
                         THEN FALSE
                         ELSE IsNumberFrac(str, p, n, i1)
                 ELSE IsNumberFrac(str, p, n, i0)

(***************************************************************************)
(* NUMBER payloads: the eight bytes of an IEEE-754 binary64, least         *)
(* significant byte first, as atof stores them on a little-endian build:   *)
(* data[8] holds the sign and the high seven exponent bits, data[7] the    *)
(* low four exponent bits and the top four fraction bits, data[6]..data[1] *)
(* the other forty-eight fraction bits.  The conversion is exact (round to *)
(* nearest even) for every decimal whose digits and exponent fit the       *)
(* 32-bit integers of TLC.                                                  *)
(***************************************************************************)

RECURSIVE Pow(_, _)
Pow(b, k) == IF k <= 0 THEN 1 ELSE b * Pow(b, k - 1)

RECURSIVE NumDigits(_)
NumDigits(m) == IF m < 10 THEN 1 ELSE 1 + NumDigits(m \div 10)

\* The binary exponent E and the scaled pair r/d in [1, 2) with num/den = (r/d) * 2^E.
RECURSIVE Normalize(_, _, _)
Normalize(num, den, E) ==
    IF num >= 2 * den THEN Normalize(num, 2 * den, E + 1)
    ELSE IF num < den THEN Normalize(2 * num, den, E - 1)
    ELSE [r |-> num, d |-> den, E |-> E]

\* The fifty-two fraction bits of rem/d (rem < d) as a nibble and six bytes,
\* most significant first, and the remainder left after them.
FracBytes(rem, d) ==
    LET n0 == (rem * 16) \div d
        r0 == (rem * 16) % d
        b5 == (r0 * 256) \div d
        r5 == (r0 * 256) % d
        b4 == (r5 * 256) \div d
        r4 == (r5 * 256) % d
        b3 == (r4 * 256) \div d
        r3 == (r4 * 256) % d
        b2 == (r3 * 256) \div d
        r2 == (r3 * 256) % d
        b1 == (r2 * 256) \div d
        r1 == (r2 * 256) % d
        b0 == (r1 * 256) \div d
        rr == (r1 * 256) % d
    IN  [digs |-> <<n0, b5, b4, b3, b2, b1, b0>>, rem |-> rr]

\* digs + 1 in base 256; the leading digit is left to overflow to 16.
RECURSIVE IncDigs(_)
IncDigs(digs) ==
    LET n == Len(digs)
    IN  IF n = 1 THEN <<digs[1] + 1>>
        ELSE IF digs[n] < 255 THEN [digs EXCEPT ![n] = digs[n] + 1]
        ELSE Append(IncDigs(SubSeq(digs, 1, n - 1)), 0)

\* The bytes of a binary64 from its sign, biased exponent and fraction digits.
PackDouble(neg, e11, digs) ==
    <<digs[7], digs[6], digs[5], digs[4], digs[3], digs[2],
      (e11 % 16) * 16 + digs[1],
      (IF neg THEN 128 ELSE 0) + (e11 \div 16)>>

DoubleZero(neg) == PackDouble(neg, 0, <<0, 0, 0, 0, 0, 0, 0>>)

DoubleInf(neg) == PackDouble(neg, 2047, <<0, 0, 0, 0, 0, 0, 0>>)

\* The binary64 nearest to num/den (num > 0, den > 0).
EncodeRational(neg, num, den) ==
    LET nz == Normalize(num, den, 0)
        fb == FracBytes(nz.r - nz.d, nz.d)
        up == \/ 2 * fb.rem > nz.d
              \/ 2 * fb.rem = nz.d /\ fb.digs[7] % 2 = 1
        inc == IF up THEN IncDigs(fb.digs) ELSE fb.digs
        carry == inc[1] = 16
        mant == IF carry THEN [inc EXCEPT ![1] = 0] ELSE inc
    IN  PackDouble(neg, nz.E + 1023 + (IF carry THEN 1 ELSE 0), mant)

\* The binary64 of m * 10^x: infinite above the binary64 range, zero below it.
DoubleBytes(neg, m, x) ==
    IF m = 0 THEN DoubleZero(neg)
    ELSE IF NumDigits(m) + x > 309 THEN DoubleInf(neg)
    ELSE IF NumDigits(m) + x < -323 THEN DoubleZero(neg)
    ELSE EncodeRational(neg, m * Pow(10, x), Pow(10, 0 - x))

\* A run of decimal digits from offset i: the offset after it, its value
\* (capped, as only its magnitude matters once it is huge) and its length.
RECURSIVE ScanDigits(_, _, _, _)
ScanDigits(str, i, val, cnt) ==
    IF is_a_digit(Ch(str, i))
    THEN ScanDigits(str, i + 1,
                    IF val >= 100000 THEN val ELSE 10 * val + DigitVal(Ch(str, i)), cnt + 1)
    ELSE [i |-> i, val |-> val, cnt |-> cnt]

\* atof(str + p): the longest decimal floating literal that starts at p.
Atof(str, p) ==
    LET neg == Ch(str, p) = "-"
        i0 == IF IsSign(Ch(str, p)) THEN p + 1 ELSE p
        ip == ScanDigits(str, i0, 0, 0)
        fp == IF Ch(str, ip.i) = "." THEN ScanDigits(str, ip.i + 1, ip.val, 0)
              ELSE [i |-> ip.i, val |-> ip.val, cnt |-> 0]
        eneg == IsExp(Ch(str, fp.i)) /\ Ch(str, fp.i + 1) = "-"
        e0 == IF IsExp(Ch(str, fp.i)) /\ IsSign(Ch(str, fp.i + 1)) THEN fp.i + 2 ELSE fp.i + 1
        ep == IF IsExp(Ch(str, fp.i)) THEN ScanDigits(str, e0, 0, 0)
              ELSE [i |-> fp.i, val |-> 0, cnt |-> 0]
        ex == IF ep.cnt = 0 THEN 0 ELSE IF eneg THEN 0 - ep.val ELSE ep.val
    IN  IF ip.cnt + fp.cnt = 0 THEN DoubleZero(FALSE)
        ELSE DoubleBytes(neg, fp.val, ex - fp.cnt)

IsNeg(data) == data[8] >= 128

\* The magnitude of a binary64 as its bytes from the most significant down.
Magnitude(data) ==
    <<data[8] % 128, data[7], data[6], data[5], data[4], data[3], data[2], data[1]>>

RECURSIVE SeqLess(_, _)
SeqLess(a, b) ==
    IF a = <<>> \/ b = <<>> THEN FALSE
    ELSE IF a[1] # b[1] THEN a[1] < b[1]
    ELSE SeqLess(Tail(a), Tail(b))

IsZeroDouble(data) == \A k \in 1..8 : Magnitude(data)[k] = 0

\* a < b on two binary64 values that are not NaN.
DoubleLess(a, b) ==
    IF IsZeroDouble(a) /\ IsZeroDouble(b) THEN FALSE
    ELSE IF IsNeg(a) /\ ~IsNeg(b) THEN TRUE
    ELSE IF ~IsNeg(a) /\ IsNeg(b) THEN FALSE
    ELSE IF IsNeg(a) THEN SeqLess(Magnitude(b), Magnitude(a))
    ELSE SeqLess(Magnitude(a), Magnitude(b))

\* digs * k + carry in base 256, most significant digit first; the result
\* is one digit longer than digs.
RECURSIVE MulDigs(_, _, _)
MulDigs(digs, k, carry) ==
    IF digs = <<>> THEN <<carry>>
    ELSE Append(MulDigs(SubSeq(digs, 1, Len(digs) - 1), k,
                        (digs[Len(digs)] * k + carry) \div 256),
                (digs[Len(digs)] * k + carry) % 256)

\* The value of base-256 digits whose first digit is below 32.
RECURSIVE DigsVal(_)
DigsVal(digs) ==
    IF digs = <<>> THEN 0
    ELSE 256 * DigsVal(SubSeq(digs, 1, Len(digs) - 1)) + digs[Len(digs)]

RECURSIVE IntText(_)
IntText(v) == IF v < 10 THEN <<DigitChar(v)>> ELSE Append(IntText(v \div 10), DigitChar(v % 10))

\* v as at least w decimal digits, zero padded ("%0wd").
RECURSIVE PadText(_, _)
PadText(v, w) ==
    IF w <= 1 THEN IntText(v)
    ELSE IF v < Pow(10, w - 1) THEN <<"0">> \o PadText(v, w - 1)
    ELSE IntText(v)

\* How the fraction top/2^b + 0.lo (lo in base 256) compares with one half.
HalfCompare(top, b, lo) ==
    LET head == IF b > 0 THEN top ELSE lo[1]
        half == IF b > 0 THEN Pow(2, b - 1) ELSE 128
        rest == IF b > 0 THEN lo ELSE Tail(lo)
    IN  IF head > half THEN "above"
        ELSE IF head < half THEN "below"
        ELSE IF \A k \in 1..Len(rest) : rest[k] = 0 THEN "tie"
        ELSE "above"

\* The value times 100, rounded to an integer with ties to even, of the
\* binary64 with the 53-bit significand sig (seven base-256 digits) and the
\* binary exponent E; for magnitudes below 2^20.
Hundredths(sig, E) ==
    LET X == MulDigs(sig, 100, 0)
        t == 52 - E
        a == t \div 8
        b == t % 8
        hv == DigsVal(SubSeq(X, 1, 8 - a))
        lo == SubSeq(X, 9 - a, 8)
        q == hv \div Pow(2, b)
        c == HalfCompare(hv % Pow(2, b), b, lo)
    IN  IF t <= 0 THEN DigsVal(X) * Pow(2, 0 - t)
        ELSE IF t >= 61 THEN 0
        ELSE IF c = "above" \/ (c = "tie" /\ q % 2 = 1) THEN q + 1
        ELSE q

\* sprintf("%.2lf", x): the value rounded to hundredths, ties to even.
NumberText(data) ==
    LET sgn == IF IsNeg(data) THEN <<"-">> ELSE <<>>
        e11 == (data[8] % 128) * 16 + (data[7] \div 16)
        sig == <<16 + (data[7] % 16), data[6], data[5], data[4], data[3], data[2], data[1]>>
        H == Hundredths(sig, e11 - 1023)
    IN  IF e11 = 2047 THEN sgn \o <<"i", "n", "f">>
        ELSE IF e11 = 0 THEN sgn \o <<"0", ".", "0", "0">>
        ELSE sgn \o IntText(H \div 100) \o <<".">> \o PadText(H % 100, 2)

(***************************************************************************)
(* DATE payloads: the three integers of pbg_type_date, four bytes each,    *)
(* least significant byte first.                                           *)
(***************************************************************************)

SizeofDate == 12

IntBytes(v) == <<v % 256, (v \div 256) % 256, 0, 0>>

IntOfBytes(data, k) == data[k] + 256 * data[k + 1]

pbg_todate(str, p) ==
    IntBytes(DigitVal(Ch(str, p)) * 1000 + DigitVal(Ch(str, p + 1)) * 100
             + DigitVal(Ch(str, p + 2)) * 10 + DigitVal(Ch(str, p + 3)))
      \o IntBytes(DigitVal(Ch(str, p + 5)) * 10 + DigitVal(Ch(str, p + 6)))
      \o IntBytes(DigitVal(Ch(str, p + 8)) * 10 + DigitVal(Ch(str, p + 9)))

(***************************************************************************)
(* Nodes and expressions.                                                  *)
(***************************************************************************)

OpTypes == {"NOT", "AND", "OR", "EQ", "LT", "GT", "EXST", "NEQ", "LTE", "GTE"}

LiteralTypes == {"TRUE", "FALSE", "NUMBER", "STRING", "DATE", "KEY", "UNKNOWN"}

\* A node slot that was allocated (or lies past the allocation) and never written.
UninitNode == [type |-> "UNINIT", int |-> 0, data |-> <<>>]

Node(type, int, data) == [type |-> type, int |-> int, data |-> data]

\* strncpy(dst, str + p + 1, n - 2): the bytes between the delimiters.
CopyBytes(str, p, n) == [k \in 1..(n - 2) |-> Ch(str, p + k)]

(***************************************************************************)
(* pbg_parse, phase 1: the counting scan and the field scan.               *)
(***************************************************************************)

\* The in-string flag after the byte at i has been looked at.
NextInString(str, i, instring) ==
    IF \/ ~instring /\ Ch(str, i) = "'"
       \/ instring /\ Ch(str, i) = "'" /\ Ch(str, i - 1) # "\\"
    THEN ~instring
    ELSE instring

CountStep(str, i, st) ==
    LET ins == NextInString(str, i, st.instring)
        c == Ch(str, i)
    IN  IF ins THEN [st EXCEPT !.instring = ins]
        ELSE [instring |-> ins,
              numcommas |-> st.numcommas + (IF c = "," THEN 1 ELSE 0),
              numkeys |-> st.numkeys + (IF c = "[" THEN 1 ELSE 0),
              numclosings |-> st.numclosings + (IF c = ")" THEN 1 ELSE 0)]

\* The first loop from byte i on; s is the state after the round for byte i.
RECURSIVE CountScan(_, _, _, _)
CountScan(str, n, i, st) ==
    IF i >= n THEN st
    ELSE CHOOSE r \in {CountScan(str, n, i + 1, s) : s \in {CountStep(str, i, st)}} : TRUE

Counts(str) ==
    CountScan(str, Len(str), 0,
              [instring |-> FALSE, numcommas |-> 0, numkeys |-> 0, numclosings |-> 0])

\* One round of the second loop of pbg_parse.  The index c of closings[c]
\* is never advanced by the loop, so it is the constant 0 here.
FieldStep(str, i, st) ==
    LET ins == NextInString(str, i, st.instring)
        ch == Ch(str, i)
        cl == IF ch = ")" THEN [st.closings EXCEPT ![0] = i] ELSE st.closings
        shut == st.open /\ (ch = ")" \/ (ch = "," /\ Ch(str, i - 1) # ")"))
        len1 == IF shut THEN [st.lengths EXCEPT ![st.f] = i - st.fields[st.f]]
                ELSE st.lengths
        f1 == IF shut THEN st.f + 1 ELSE st.f
        open1 == IF shut THEN FALSE ELSE st.open
        start == ~open1 /\ (ch = "(" \/ (ch = "," /\ Ch(str, i + 1) # "("))
    IN  IF ins THEN [st EXCEPT !.instring = ins]
        ELSE [instring |-> ins,
              closings |-> cl,
              lengths |-> len1,
              fields |-> IF start THEN [st.fields EXCEPT ![f1] = i + 1] ELSE st.fields,
              f |-> f1,
              open |-> IF start THEN TRUE ELSE open1]

\* The second loop from byte i on; s is the state after the round for byte i.
RECURSIVE FieldScan(_, _, _, _)
FieldScan(str, n, i, st) ==
    IF i >= n THEN st
    ELSE CHOOSE r \in {FieldScan(str, n, i + 1, s) : s \in {FieldStep(str, i, st)}} : TRUE

\* What the two scans leave behind: the three arrays, with the sentinel
\* fields[numfields] = -1, and the sizes computed from the counts.
ScanResult(cnt, st) ==
    [fields |-> [st.fields EXCEPT ![cnt.numcommas + 1] = -1],
     lengths |-> st.lengths,
     closings |-> st.closings,
     numfields |-> cnt.numcommas + 1,
     numstatic |-> cnt.numcommas + 1 - cnt.numkeys,
     numdynamic |-> cnt.numkeys,
     numclosings |-> cnt.numclosings]

\* The state the second loop starts in; blank is memory as malloc left it.
ScanStart(first, blank) ==
    [instring |-> FALSE, closings |-> blank, lengths |-> blank,
     fields |-> [blank EXCEPT ![0] = first], f |-> 0, open |-> TRUE]

\* fields, lengths and closings as pbg_parse hands them to pbg_parse_r.  An
\* element the scan never wrote holds whatever malloc left there: g.
Phase1(str, g) ==
    ScanResult(Counts(str),
               FieldScan(str, Len(str), IF Ch(str, 0) = "(" THEN 1 ELSE 0,
                         ScanStart(IF Ch(str, 0) = "(" THEN 1 ELSE 0,
                                   [k \in 0..(Len(str) + 1) |-> g])))

\* An array element; an index outside the array reads what lies there: g.
At(arr, k, g) == IF k \in DOMAIN arr THEN arr[k] ELSE g

(***************************************************************************)
(* pbg_parse, phase 2: the recursive build.  The arenas are sequences:     *)
(* index k of the C array is position k+1.  staticsz and dynamicsz are the *)
(* lengths of the sequences while the build runs.                          *)
(***************************************************************************)

\* The literal branch of pbg_parse_r for the field at offset p of length n:
\* the node it initialises and the arena it goes to, or "NONE" when no
\* recognizer accepts the field (the branch then creates nothing).
LiteralNode(str, p, n) ==
    IF pbg_iskey(str, p, n) THEN
        [arena |-> "dynamic", node |-> Node("KEY", n - 2, CopyBytes(str, p, n))]
    ELSE IF pbg_isdate(str, p, n) THEN
        [arena |-> "static", node |-> Node("DATE", SizeofDate, pbg_todate(str, p))]
    ELSE IF pbg_isnumber(str, p, n) THEN
        [arena |-> "static", node |-> Node("NUMBER", 8, Atof(str, p))]
    ELSE IF pbg_isstring(str, p, n) THEN
        [arena |-> "static", node |-> Node("STRING", n - 2, CopyBytes(str, p, n))]
    ELSE IF pbg_istrue(str, p, n) THEN
        [arena |-> "static", node |-> Node("TRUE", 0, <<>>)]
    ELSE IF pbg_isfalse(str, p, n) THEN
        [arena |-> "static", node |-> Node("FALSE", 0, <<>>)]
    ELSE [arena |-> "NONE", node |-> UninitNode]

RECURSIVE pbg_parse_r(_, _, _, _, _, _)
RECURSIVE ParseChildren(_, _, _, _, _, _, _)

\* One round of the while loop, r being what the recursive call returned.
ParseNext(str, ph, g, children, r) ==
    ParseChildren(r.b, str, ph, g, r.field, r.closing, Append(children, r.nodeidx))

\* The while loop of the operator branch: children are read for as long as
\* the next field starts before closings[closing].
ParseChildren(b, str, ph, g, field, closing, children) ==
    IF At(ph.fields, field, g) # -1
       /\ At(ph.fields, field, g) < At(ph.closings, closing, g)
    THEN ParseNext(str, ph, g, children, pbg_parse_r(b, str, ph, g, field, closing))
    ELSE [b |-> b, field |-> field, closing |-> closing, children |-> children]

\* The end of the operator branch, lp being what the loop left: the child
\* list is saved in the node and the closing cursor advanced.
OperatorDone(type, nodeidx, lp) ==
    [b |-> [lp.b EXCEPT !.static[nodeidx + 1] = Node(type, Len(lp.children), lp.children)],
     field |-> lp.field,
     closing |-> lp.closing + 1,
     nodeidx |-> nodeidx]

\* The end of the literal branch, lit being what LiteralNode gave.
LiteralDone(b, g, field, closing, lit) ==
    [b |-> IF lit.arena = "dynamic"
             THEN [b EXCEPT !.dynamic = Append(b.dynamic, lit.node)]
           ELSE IF lit.arena = "static"
             THEN [b EXCEPT !.static = Append(b.static, lit.node)]
           ELSE b,
     field |-> field + 1,
     closing |-> closing,
     nodeidx |-> IF lit.arena = "dynamic" THEN 0 - Len(b.dynamic) - 1
                 ELSE IF lit.arena = "static" THEN Len(b.static)
                 ELSE g]

\* pbg_parse_r on the field at offset p of length n.
ParseField(b, str, ph, g, field, closing, p, n) ==
    IF pbg_toop(str, p, n) # "UNKNOWN" THEN
        OperatorDone(pbg_toop(str, p, n), Len(b.static),
                     ParseChildren([b EXCEPT !.static =
                                       Append(b.static, Node(pbg_toop(str, p, n), 0, <<>>))],
                                   str, ph, g, field + 1, closing, <<>>))
    ELSE LiteralDone(b, g, field, closing, LiteralNode(str, p, n))

\* b holds the two arenas under construction.  The result carries them, the
\* two cursors and the signed index of the node created; a field no
\* recognizer accepts leaves that index as it was: g.
pbg_parse_r(b, str, ph, g, field, closing) ==
    ParseField(b, str, ph, g, field, closing,
               At(ph.fields, field, g), At(ph.lengths, field, g))

\* An arena of the allocated size: the nodes created, then the slots that
\* were allocated and never written.
Padded(nodes, size) ==
    nodes \o [k \in 1..(size - Len(nodes)) |-> UninitNode]

\* The expression pbg_parse leaves: the arenas with the sizes they were
\* allocated with (numstatic, numdynamic) and the counts of nodes created.
Built(ph, r) ==
    [static |-> Padded(r.b.static, ph.numstatic),
     dynamic |-> Padded(r.b.dynamic, ph.numdynamic),
     staticsz |-> Len(r.b.static),
     dynamicsz |-> Len(r.b.dynamic),
     numstatic |-> ph.numstatic,
     numdynamic |-> ph.numdynamic]

BuildFrom(str, g, ph) ==
    Built(ph, pbg_parse_r([static |-> <<>>, dynamic |-> <<>>], str, ph, g, 0, 0))

\* pbg_parse(e, str, n) with n = strlen(str).
pbg_parse(str, g) == BuildFrom(str, g, Phase1(str, g))

(***************************************************************************)
(* pbg_evaluate_r.  A walk runs over the static arena and the arena that   *)
(* e->_dynamic points to.  A read of memory that holds no node (a slot     *)
(* never written, an index outside its arena, a payload of another kind    *)
(* read as a double) has an outcome u the program does not control: the    *)
(* bytes read as false (0), read as true (1), or the process faults        *)
(* ("SEGV").                                                               *)
(***************************************************************************)

Undef == {"0", "1", "SEGV"}

\* The bit an undefined read was taken for.
UndefBit(u) == IF u = "1" THEN 1 ELSE 0

\* What get_expr_node gives where there is no node.
WildRead == [type |-> "WILD", int |-> 0, data |-> <<>>]

IsWild(node) == node.type = "WILD"

\* get_expr_node: the node a signed index selects, WildRead when the index
\* selects no node that was ever written.
get_expr_node(static, dyn, index) ==
    IF index < 0 THEN
        IF 0 - index <= Len(dyn) /\ dyn[0 - index].type # "UNINIT"
        THEN dyn[0 - index] ELSE WildRead
    ELSE
        IF index < Len(static) /\ static[index + 1].type # "UNINIT"
        THEN static[index + 1] ELSE WildRead

\* children[k] of the C array (k from 0); past the list it is no index.
ChildRef(node, k) == IF k < Len(node.data) THEN node.data[k + 1] ELSE 1000000

\* Byte b (0..3) of a 32-bit int in memory.
IntByte(v, b) ==
    IF v >= 0 THEN (v \div Pow(256, b)) % 256
    ELSE 255 - (((0 - v - 1) \div Pow(256, b)) % 256)

\* Byte j (from 0) of the payload _data points to.
PayloadByte(node, j) ==
    IF node.type \in OpTypes THEN IntByte(node.data[(j \div 4) + 1], j % 4)
    ELSE node.data[j + 1]

\* The zero byte of a payload: of characters, or of numbers.
IsNulByte(node, j) ==
    IF node.type \in {"STRING", "KEY"} THEN PayloadByte(node, j) = NUL
    ELSE PayloadByte(node, j) = 0

\* for(j = 0; j < child0->_int; j++) if(child0->_data[j] != childi->_data[j]) return 0;
BytesEqual(a, b) == \A j \in 0..(a.int - 1) : PayloadByte(a, j) = PayloadByte(b, j)

\* strncmp(b->_data, a->_data, a->_int) != 0: the comparison stops at the
\* first difference and at the first zero byte.
RECURSIVE StrncmpDiffers(_, _, _)
StrncmpDiffers(a, b, j) ==
    IF j >= a.int THEN FALSE
    ELSE IF PayloadByte(a, j) # PayloadByte(b, j) THEN TRUE
    ELSE IF IsNulByte(a, j) THEN FALSE
    ELSE StrncmpDiffers(a, b, j + 1)

\* One round of the EQ loop: childi has the type, the length and the bytes
\* of child0.
EqPair(child0, childi) ==
    /\ childi.int = child0.int
    /\ childi.type = child0.type
    /\ BytesEqual(child0, childi)

\* NEQ on child0 and child1.
NeqPair(child0, child1) ==
    \/ child1.type # child0.type
    \/ child1.int # child0.int
    \/ StrncmpDiffers(child0, child1, 0)

\* *((double*)child0->_data) OP *((double*)child1->_data) for two NUMBER nodes.
Compare(type, a, b) ==
    CASE type = "LT" -> DoubleLess(a.data, b.data)
      [] type = "GT" -> DoubleLess(b.data, a.data)
      [] type = "LTE" -> ~DoubleLess(b.data, a.data)
      [] type = "GTE" -> ~DoubleLess(a.data, b.data)

\* The outcome of reading a node's payload as a double: "NUMBER" when it is
\* one, "NULL" when _data is a null pointer, "OTHER" when it is other bytes.
AsDouble(node) ==
    IF node.type = "NUMBER" THEN "NUMBER"
    ELSE IF node.data = <<>> THEN "NULL"
    ELSE "OTHER"

Bit(b) == IF b THEN 1 ELSE 0

\* What a wild read shows under outcome u: a node that reads as a boolean.
WildNode(u) == Node(IF u = "1" THEN "TRUE" ELSE "FALSE", 0, <<>>)

Event(kind, ref, val) == [kind |-> kind, ref |-> ref, val |-> val]

RECURSIVE Walk(_, _, _, _)
RECURSIVE WalkAll(_, _, _, _, _, _)

\* For comparison, loops that go on after the value is decided: every child
\* is walked, and the value is stop if one of them gave stop.
RECURSIVE WalkEvery(_, _, _, _, _, _)
WalkEvery(static, dyn, u, node, i, stop) ==
    IF i >= node.int THEN [val |-> 1 - stop, tr |-> <<>>, crash |-> FALSE]
    ELSE LET r == Walk(static, dyn, u, ChildRef(node, i))
             rest == WalkEvery(static, dyn, u, node, i + 1, stop)
         IN  IF r.crash THEN r
             ELSE [val |-> IF r.val = stop THEN stop ELSE rest.val,
                   tr |-> r.tr \o rest.tr,
                   crash |-> rest.crash]

\* The loops of AND (stop = 0) and OR (stop = 1) from child i on: the first
\* child whose value is stop ends the loop.
WalkAll(static, dyn, u, node, i, stop) ==
    IF i >= node.int THEN [val |-> 1 - stop, tr |-> <<>>, crash |-> FALSE]
    ELSE LET r == Walk(static, dyn, u, ChildRef(node, i))
         IN  IF r.crash \/ r.val = stop THEN r
             ELSE LET rest == WalkAll(static, dyn, u, node, i + 1, stop)
                  IN  [rest EXCEPT !.tr = r.tr \o rest.tr]

\* The EQ loop from child i on (i >= 1): the value, the indices of the
\* children it read, and whether one of them was no node.  The loop reads
\* child i only if the children before it equalled child 0.
RECURSIVE EqLoop(_, _, _, _)
EqLoop(static, dyn, node, i) ==
    IF i >= node.int THEN [val |-> 1, refs |-> <<>>, wild |-> FALSE]
    ELSE LET n0 == get_expr_node(static, dyn, ChildRef(node, 0))
             ni == get_expr_node(static, dyn, ChildRef(node, i))
             first == IF i = 1 THEN <<ChildRef(node, 0)>> ELSE <<>>
             here == first \o <<ChildRef(node, i)>>
         IN  IF IsWild(n0) \/ IsWild(ni) THEN [val |-> 0, refs |-> here, wild |-> TRUE]
             ELSE IF ~EqPair(n0, ni) THEN [val |-> 0, refs |-> here, wild |-> FALSE]
             ELSE LET rest == EqLoop(static, dyn, node, i + 1)
                  IN  [rest EXCEPT !.refs = here \o rest.refs]

\* pbg_evaluate_r on the node the signed index ref selects: its value, the
\* events of the walk, and whether the walk faulted.
Walk(static, dyn, u, ref) ==
    LET got == get_expr_node(static, dyn, ref)
        wild == IsWild(got)
        node == IF wild THEN WildNode(u) ELSE got
        call == <<Event("call", ref, 0)>>
        Done(v, tr) == [val |-> v, tr |-> call \o tr \o <<Event("ret", ref, v)>>,
                        crash |-> FALSE]
        Fault(tr) == [val |-> 0, tr |-> call \o tr, crash |-> TRUE]
        Reads(refs) == [k \in 1..Len(refs) |-> Event("read", refs[k], 0)]
        c0 == ChildRef(node, 0)
        c1 == ChildRef(node, 1)
        n0 == get_expr_node(static, dyn, c0)
        n1 == get_expr_node(static, dyn, c1)
    IN  IF wild /\ u = "SEGV" THEN Fault(<<>>)
        ELSE IF node.type \in LiteralTypes THEN
            Done(IF node.type = "TRUE" THEN 1 ELSE 0, <<>>)
        ELSE IF node.type = "NOT" THEN
            LET r == Walk(static, dyn, u, c0)
            IN  IF r.crash THEN Fault(r.tr) ELSE Done(Bit(r.val = 0), r.tr)
        ELSE IF node.type \in {"AND", "OR"} THEN
            LET r == WalkAll(static, dyn, u, node, 0, IF node.type = "AND" THEN 0 ELSE 1)
            IN  IF r.crash THEN Fault(r.tr) ELSE Done(r.val, r.tr)
        ELSE IF node.type = "EXST" THEN
            IF IsWild(n0) THEN
                IF u = "SEGV" THEN Fault(Reads(<<c0>>)) ELSE Done(UndefBit(u), Reads(<<c0>>))
            ELSE Done(Bit(n0.type # "UNKNOWN"), Reads(<<c0>>))
        ELSE IF node.type = "EQ" THEN
            LET r == EqLoop(static, dyn, node, 1)
            IN  IF r.wild THEN
                    IF u = "SEGV" THEN Fault(Reads(r.refs)) ELSE Done(UndefBit(u), Reads(r.refs))
                ELSE Done(r.val, Reads(r.refs))
        ELSE IF node.type = "NEQ" THEN
            IF IsWild(n0) \/ IsWild(n1) THEN
                IF u = "SEGV" THEN Fault(Reads(<<c0, c1>>)) ELSE Done(UndefBit(u), Reads(<<c0, c1>>))
            ELSE Done(Bit(NeqPair(n0, n1)), Reads(<<c0, c1>>))
        ELSE \* LT, GT, LTE, GTE
            IF IsWild(n0) \/ IsWild(n1) THEN
                IF u = "SEGV" THEN Fault(Reads(<<c0, c1>>)) ELSE Done(UndefBit(u), Reads(<<c0, c1>>))
            ELSE IF AsDouble(n0) = "NULL" \/ AsDouble(n1) = "NULL" THEN
                Fault(Reads(<<c0, c1>>))
            ELSE IF AsDouble(n0) = "OTHER" \/ AsDouble(n1) = "OTHER" THEN
                IF u = "SEGV" THEN Fault(Reads(<<c0, c1>>)) ELSE Done(UndefBit(u), Reads(<<c0, c1>>))
            ELSE Done(Bit(Compare(node.type, n0, n1)), Reads(<<c0, c1>>))

(***************************************************************************)
(* pbg_gets_r: the text of the node a signed index selects.                *)
(***************************************************************************)

OpSymbol(type) ==
    CASE type = "NOT" -> <<"!">>
      [] type = "AND" -> <<"&">>
      [] type = "OR" -> <<"|">>
      [] type = "EQ" -> <<"=">>
      [] type = "LT" -> <<"<">>
      [] type = "GT" -> <<">">>
      [] type = "EXST" -> <<"?">>
      [] type = "NEQ" -> <<"!", "=">>
      [] type = "LTE" -> <<"<", "=">>
      [] type = "GTE" -> <<">", "=">>

\* The switch over the literal kinds; a kind with no case writes nothing.
LiteralText(node) ==
    CASE node.type = "TRUE" -> <<"T", "R", "U", "E">>
      [] node.type = "FALSE" -> <<"F", "A", "L", "S", "E">>
      [] node.type = "STRING" -> <<"'">> \o node.data \o <<"'">>
      [] node.type = "DATE" ->
            PadText(IntOfBytes(node.data, 1), 4) \o <<"-">>
              \o PadText(IntOfBytes(node.data, 5), 2) \o <<"-">>
              \o PadText(IntOfBytes(node.data, 9), 2)
      [] node.type = "KEY" -> <<"[">> \o node.data \o <<"]">>
      [] node.type = "NUMBER" -> NumberText(node.data)
      [] OTHER -> <<>>

RECURSIVE pbg_gets_r(_, _, _, _)
RECURSIVE GetsChildren(_, _, _, _, _)

\* The loop over the children from child j on, a comma after each but the last.
GetsChildren(static, dyn, u, node, j) ==
    IF j >= node.int THEN [text |-> <<>>, crash |-> FALSE]
    ELSE LET r == pbg_gets_r(static, dyn, u, ChildRef(node, j))
             rest == GetsChildren(static, dyn, u, node, j + 1)
             sep == IF j # node.int - 1 THEN <<",">> ELSE <<>>
         IN  IF r.crash THEN r
             ELSE [text |-> r.text \o sep \o rest.text, crash |-> rest.crash]

pbg_gets_r(static, dyn, u, ref) ==
    LET got == get_expr_node(static, dyn, ref)
        node == IF IsWild(got) THEN WildNode(u) ELSE got
    IN  IF IsWild(got) /\ u = "SEGV" THEN [text |-> <<>>, crash |-> TRUE]
        ELSE IF node.type \in OpTypes THEN
            LET r == GetsChildren(static, dyn, u, node, 0)
            IN  [text |-> <<"(">> \o OpSymbol(node.type) \o <<",">> \o r.text \o <<")">>,
                 crash |-> r.crash]
        ELSE [text |-> LiteralText(node), crash |-> FALSE]

(***************************************************************************)
(* Inputs: texts derived from the grammar                                  *)
(*     expr := literal | '(' op ',' expr (',' expr)* ')'                   *)
(* A derivation is a leaf [alt, tok], alt the alternative of `literal`     *)
(* that gave the token, or a group [sym, kids].                            *)
(***************************************************************************)

\* The most sub-expressions a group of a derivation has.
MaxArgs == 2

Leaf(alt, tok) == [alt |-> alt, tok |-> tok]

Group(sym, kids) == [sym |-> sym, kids |-> kids]

IsLeaf(d) == "tok" \in DOMAIN d

L_TRUE == Leaf("TRUE", <<"T", "R", "U", "E">>)
L_FALSE == Leaf("FALSE", <<"F", "A", "L", "S", "E">>)
L_one == Leaf("NUMBER", <<"1">>)
L_two == Leaf("NUMBER", <<"2">>)
L_eighth == Leaf("NUMBER", <<"0", ".", "1", "2", "5">>)
L_huge == Leaf("NUMBER", <<"1", ".", "0", "e", "9", "9", "9">>)
L_str == Leaf("STRING", <<"'", ",", ")", "'">>)
L_esc == Leaf("STRING", <<"'", "\\", "'", "(", "'">>)
L_k == Leaf("KEY", <<"[", "k", "]">>)
L_j == Leaf("KEY", <<"[", "j", "]">>)
L_kbr == Leaf("KEY", <<"[", "a", "[", "b", "]">>)
L_kq == Leaf("KEY", <<"[", "a", "'", "b", "]">>)
L_date == Leaf("DATE", <<"2", "0", "2", "0", "-", "0", "1", "-", "0", "2">>)
L_date2 == Leaf("DATE", <<"2", "0", "2", "0", "-", "0", "1", "-", "0", "3">>)
\* A field no alternative of `literal` derives.
L_bad == Leaf("NONE", <<"a", "b", "c">>)

OpSymbols ==
    {<<"!">>, <<"&">>, <<"|">>, <<"=">>, <<"<">>, <<">">>, <<"?">>,
     <<"!", "=">>, <<"<", "=">>, <<">", "=">>}

RECURSIVE JoinTexts(_)
JoinTexts(texts) ==
    IF texts = <<>> THEN <<>>
    ELSE IF Len(texts) = 1 THEN texts[1]
    ELSE texts[1] \o <<",">> \o JoinTexts(Tail(texts))

\* The text a derivation derives.
RECURSIVE Text(_)
Text(d) ==
    IF IsLeaf(d) THEN d.tok
    ELSE <<"(">> \o d.sym \o <<",">>
           \o JoinTexts([k \in 1..Len(d.kids) |-> Text(d.kids[k])]) \o <<")">>

\* The sequences over S of length 1..MaxArgs.
Lists(S) == UNION {[1..k -> S] : k \in 1..MaxArgs}

\* Every literal token of the model.
AllLits ==
    {L_TRUE, L_FALSE, L_one, L_two, L_eighth, L_huge, L_str, L_esc,
     L_k, L_j, L_kbr, L_kq, L_date, L_date2, L_bad}

\* expr := literal
Singles == AllLits

\* Every operator over a few literals, of every length up to MaxArgs.
FlatLits == {L_TRUE, L_FALSE, L_one, L_k, L_j}

Flat == {Group(sym, kids) : sym \in OpSymbols, kids \in Lists(FlatLits)}

\* Two operands of every kind under =, != and <.
Pairs == {Group(sym, kids) : sym \in {<<"=">>, <<"!", "=">>, <<"<">>},
                             kids \in [1..2 -> AllLits]}

\* One nested group among literal siblings.
NestLits == {L_TRUE, L_str}

NestSyms == {<<"&">>, <<"!">>}

Siblings ==
    {pq \in ({<<>>} \cup Lists(NestLits)) \X ({<<>>} \cup Lists(NestLits)) :
        Len(pq[1]) + Len(pq[2]) < MaxArgs}

Nested ==
    {Group(outer, pq[1] \o <<Group(inner, kids)>> \o pq[2]) :
        outer \in NestSyms, inner \in NestSyms, pq \in Siblings, kids \in Lists(NestLits)}

\* Two groups side by side, and a group in a group in a group.
Deep ==
    {Group(<<"&">>, <<Group(<<"!">>, <<L_TRUE>>), L_FALSE>>),
     Group(<<"|">>, <<Group(<<"=">>, <<L_k, L_one>>), Group(<<"=">>, <<L_j, L_two>>)>>),
     Group(<<"!">>, <<Group(<<"&">>, <<Group(<<"|">>, <<L_FALSE>>), L_TRUE>>)>>),
     Group(<<"<">>, <<Group(<<"&">>, <<L_TRUE>>), L_one>>)}

Sources == Singles \cup Flat \cup Pairs \cup Nested \cup Deep

(***************************************************************************)
(* The dictionary callback: a function from key names to literal nodes.    *)
(***************************************************************************)

N_UNKNOWN == Node("UNKNOWN", 0, <<>>)

DictValues ==
    {N_UNKNOWN,
     Node("TRUE", 0, <<>>),
     Node("NUMBER", 8, DoubleBytes(FALSE, 1, 0)),
     Node("STRING", 1, <<"a">>)}

\* The ints an uninitialised int can hold in the model.
GarbageInts == {-1, 1, 3, 4}

(***************************************************************************)
(* The program state.                                                      *)
(***************************************************************************)

VARIABLES
    src,       \* the derivation of the text handed to pbg_parse
    str,       \* the text handed to pbg_parse
    pc,        \* where the caller is: "start", "parsed", "resolved", "walked",
               \* "crashed", "rendered", "reparsed", "freed"
    e,         \* the pbg_expr: _static (contents), _dynamic (which block it
               \* points to), _staticsz, _dynamicsz
    keys,      \* the block pbg_parse allocated for the dynamic arena
    alloc,     \* the sizes the two arenas were allocated with
    dynamics,  \* the resolved arena of the pbg_evaluate call under way
    old,       \* the local `old` of pbg_evaluate
    result,    \* the local `result` of pbg_evaluate; -1 before the walk
    ret,       \* what the last pbg_evaluate returned; -1 before
    trace,     \* the callback calls and walk events of the current evaluation
    buf,       \* the text pbg_gets returned
    e2,        \* the expression pbg_parse built from buf
    live,      \* the heap blocks allocated and not freed
    badfree,   \* the blocks handed to free() that were not live
    before     \* history: the expression and its key arena as they were when
               \* the last pbg_evaluate was entered

vars == <<src, str, pc, e, keys, alloc, dynamics, old, result, ret, trace, buf, e2,
          live, badfree, before>>

NoExpr == [static |-> <<>>, dynamic |-> "null", staticsz |-> 0, dynamicsz |-> 0]

\* The arena e->_dynamic points to.
DynArena == IF e.dynamic = "keys" THEN keys
            ELSE IF e.dynamic = "dynamics" THEN dynamics
            ELSE <<>>

\* Whether free_expr_node frees the _data of a node of this type.
FreesData(type) == type \notin {"TRUE", "FALSE", "UNKNOWN"}

Init ==
    /\ src \in Sources
    /\ str = Text(src)
    /\ pc = "start"
    /\ e = NoExpr
    /\ keys = <<>>
    /\ alloc = [numstatic |-> 0, numdynamic |-> 0]
    /\ dynamics = <<>>
    /\ old = "null"
    /\ result = -1
    /\ ret = -1
    /\ trace = <<>>
    /\ buf = <<>>
    /\ e2 = NoExpr
    /\ live = {}
    /\ badfree = {}
    /\ before = [e |-> NoExpr, keys |-> <<>>]

\* The payload blocks the created nodes own after pbg_parse_r: every operator
\* and every literal but TRUE and FALSE was given a malloc'd _data.
ParsedBlocks(x) ==
    {<<"static", 0>>, <<"keys", 0>>}
      \cup {<<"sdata", k>> : k \in {i \in 0..(x.staticsz - 1) :
                                     x.static[i + 1].type \notin {"TRUE", "FALSE"}}}
      \cup {<<"kdata", k>> : k \in 0..(x.dynamicsz - 1)}

\* pbg_parse(&e, str, strlen(str))
Parse ==
    /\ pc = "start"
    /\ \E g \in GarbageInts : \E x \in {pbg_parse(str, g)} :
              /\ e' = [static |-> x.static, dynamic |-> "keys",
                       staticsz |-> x.staticsz, dynamicsz |-> x.dynamicsz]
              /\ keys' = x.dynamic
              /\ alloc' = [numstatic |-> x.numstatic, numdynamic |-> x.numdynamic]
              /\ live' = ParsedBlocks(x)
    /\ pc' = "parsed"
    /\ UNCHANGED <<src, str, dynamics, old, result, ret, trace, buf, e2, badfree, before>>

\* The key names the callback is asked for.
KeyNames == {keys[i].data : i \in 1..e.dynamicsz}

\* pbg_evaluate, lines 402-410: the resolved arena is allocated and the
\* callback is called on every key, in arena order.
EvalResolve ==
    /\ pc = "parsed"
    /\ \E dict \in [KeyNames -> DictValues] :
          /\ dynamics' = [i \in 1..e.dynamicsz |-> dict[keys[i].data]]
          /\ trace' = [i \in 1..e.dynamicsz |-> Event("dict", 0 - i, 0)]
          /\ live' = live \cup {<<"dynamics", 0>>}
                       \cup {<<"ddata", i - 1>> : i \in {k \in 1..e.dynamicsz :
                                                   FreesData(dict[keys[k].data].type)}}
    /\ pc' = "resolved"
    /\ result' = -1
    /\ before' = [e |-> e, keys |-> keys]
    /\ UNCHANGED <<src, str, e, keys, alloc, old, ret, buf, e2, badfree>>

\* pbg_evaluate, lines 413-417: the arenas are swapped and the walk runs
\* from the node at static index 0.
EvalWalk ==
    /\ pc = "resolved"
    /\ \E u \in Undef : \E r \in {Walk(e.static, dynamics, u, 0)} :
              /\ trace' = trace \o r.tr
              /\ result' = IF r.crash THEN -1 ELSE r.val
              /\ pc' = IF r.crash THEN "crashed" ELSE "walked"
    /\ old' = e.dynamic
    /\ e' = [e EXCEPT !.dynamic = "dynamics"]
    /\ UNCHANGED <<src, str, keys, alloc, dynamics, ret, buf, e2, live, badfree, before>>

\* For comparison, a pbg_evaluate that leaves e->_dynamic on the resolved arena.
KeptArena(saved) == "dynamics"

\* The pointer pbg_evaluate stores back into e->_dynamic after the walk.
RestoredArena(saved) == saved

\* The blocks the clean-up loop of pbg_evaluate hands to free().
EvalFrees ==
    {<<"ddata", i - 1>> : i \in {k \in 1..e.dynamicsz : FreesData(dynamics[k].type)}}
      \cup {<<"dynamics", 0>>}

\* pbg_evaluate, lines 420-428: the key arena is restored, the resolved
\* arena is freed and the result returned.
EvalReturn ==
    /\ pc = "walked"
    /\ e' = [e EXCEPT !.dynamic = RestoredArena(old)]
    /\ live' = live \ EvalFrees
    /\ badfree' = badfree \cup (EvalFrees \ live)
    /\ dynamics' = <<>>
    /\ ret' = result
    /\ pc' = "parsed"
    /\ UNCHANGED <<src, str, keys, alloc, old, result, trace, buf, e2, before>>

\* pbg_gets(&e, ...): the text of the expression from static index 0.
Gets ==
    /\ pc = "parsed"
    /\ \E u \in Undef : \E r \in {pbg_gets_r(e.static, DynArena, u, 0)} :
              /\ buf' = r.text
              /\ pc' = IF r.crash THEN "crashed" ELSE "rendered"
    /\ UNCHANGED <<src, str, e, keys, alloc, dynamics, old, result, ret, trace, e2,
                   live, badfree, before>>

\* pbg_parse(&e2, buf, strlen(buf)) on the text pbg_gets returned.
Reparse ==
    /\ pc = "rendered"
    /\ \E g \in GarbageInts : e2' = pbg_parse(buf, g)
    /\ pc' = "reparsed"
    /\ UNCHANGED <<src, str, e, keys, alloc, dynamics, old, result, ret, trace, buf,
                   live, badfree, before>>

\* The blocks pbg_free hands to free().
FreeFrees ==
    {<<"sdata", k>> : k \in {i \in 0..(e.staticsz - 1) : FreesData(e.static[i + 1].type)}}
      \cup {<<"kdata", k>> : k \in 0..(e.dynamicsz - 1)}
      \cup {<<"static", 0>>, <<e.dynamic, 0>>}

\* The static nodes phase 2 wrote past the end of the arena it was given:
\* indices numstatic and up.  The bytes there belong to the heap, which has
\* handed them out or used them for its own records since.
PastArena == {k \in 0..(e.staticsz - 1) : k >= alloc.numstatic}

\* What pbg_free hands to free() when the nodes past the arena no longer
\* read as they were written: for each of them a pointer that is no block.
SpoiltFrees ==
    (FreeFrees \ {<<"sdata", k>> : k \in PastArena})
      \cup {<<"wild", k>> : k \in PastArena}

\* pbg_free(&e).  With nodes past the arena the outcome u is not the
\* program's: they read as written ("1"), they read as other bytes ("0"),
\* or free() stops the process on the heap records written over ("SEGV").
Free ==
    /\ pc = "parsed"
    /\ \E u \in Undef : \E frees \in {IF PastArena = {} \/ u = "1" THEN FreeFrees
                                       ELSE IF u = "0" THEN SpoiltFrees
                                       ELSE {}} :
          /\ live' = live \ frees
          /\ badfree' = badfree \cup (frees \ live)
          /\ pc' = IF PastArena # {} /\ u = "SEGV" THEN "crashed" ELSE "freed"
    /\ UNCHANGED <<src, str, e, keys, alloc, dynamics, old, result, ret, trace, buf, e2, before>>

Next == Parse \/ EvalResolve \/ EvalWalk \/ EvalReturn \/ Gets \/ Reparse \/ Free

Spec == Init /\ [][Next]_vars

(***************************************************************************)
(* Properties.                                                             *)
(***************************************************************************)

\* The text of d is derived from the grammar: every leaf is a literal.
RECURSIVE Derivable(_)
Derivable(d) ==
    IF IsLeaf(d) THEN d.alt # "NONE"
    ELSE \A k \in 1..Len(d.kids) : Derivable(d.kids[k])

\* The bytes of a token between its delimiters.
Inner(tok) == SubSeq(tok, 2, Len(tok) - 1)

\* The node at ref is the root of a tree that is the derivation d: a leaf is
\* a literal of the leaf's kind (a string or key with the bytes between the
\* delimiters), a group is its operator with the group's sub-expressions as
\* children, in order.
RECURSIVE Matches(_, _, _, _)
Matches(d, static, dyn, ref) ==
    LET node == get_expr_node(static, dyn, ref)
    IN  IF IsWild(node) THEN FALSE
        ELSE IF IsLeaf(d) THEN
            /\ node.type = d.alt
            /\ d.alt \in {"STRING", "KEY"} => node.data = Inner(d.tok)
        ELSE
            /\ node.type = pbg_toop(d.sym, 0, Len(d.sym))
            /\ node.int = Len(d.kids)
            /\ \A k \in 1..Len(d.kids) : Matches(d.kids[k], static, dyn, node.data[k])

\* No key name of d holds a '[' or a quote.
RECURSIVE PlainKeys(_)
PlainKeys(d) ==
    IF IsLeaf(d) THEN
        d.alt = "KEY" => \A k \in 1..Len(Inner(d.tok)) : Inner(d.tok)[k] \notin {"[", "'"}
    ELSE \A k \in 1..Len(d.kids) : PlainKeys(d.kids[k])

\* C1: after pbg_parse of a text derived from the grammar, every operator
\* node's child list is the sequence of sub-expressions written between the
\* operator's own parentheses, in textual order, and a string literal holds
\* the bytes between its quotes whatever ',', '(', ')' or escaped quote they
\* contain.
C1_ChildListsFollowTheText ==
    (pc = "parsed" /\ Derivable(src) /\ PlainKeys(src) /\ ~IsLeaf(src)) =>
        Matches(src, e.static, keys, 0)

\* pbg_evaluate has been entered: trace holds the events of its last call.
Entered == pc \in {"resolved", "walked"} \/ e.dynamic = "dynamics" \/ ret # -1

\* The calls open before event p of the trace.
Depth(p) ==
    Cardinality({q \in 1..(p - 1) : trace[q].kind = "call"})
      - Cardinality({q \in 1..(p - 1) : trace[q].kind = "ret"})

\* The nesting level of the visit event p belongs to.
Level(p) == IF trace[p].kind = "ret" THEN Depth(p) - 1 ELSE Depth(p)

Callers(p) == {q \in 1..(p - 1) : trace[q].kind = "call" /\ Level(q) = Level(p) - 1}

\* The position of the call that made the visit of event p; 0 for the root.
Caller(p) ==
    IF Callers(p) = {} THEN 0
    ELSE CHOOSE q \in Callers(p) : \A q2 \in Callers(p) : q2 <= q

\* The visit of event p is the Rank(p)-th its caller made.
Rank(p) ==
    Cardinality({q \in 1..p : trace[q].kind = "call" /\ Caller(q) = Caller(p)})

StopValue(type) == IF type = "AND" THEN 0 ELSE 1

\* Every key is looked up once, in arena order, before the walk starts.
CallbacksFirst ==
    Entered =>
        /\ Len(trace) >= e.dynamicsz
        /\ \A i \in 1..e.dynamicsz : trace[i] = Event("dict", 0 - i, 0)
        /\ \A p \in (e.dynamicsz + 1)..Len(trace) : trace[p].kind # "dict"
        /\ pc = "resolved" => Len(trace) = e.dynamicsz

\* The visits an AND or OR makes are of its children in stored order, and
\* the visit that gives the stop value is the last: the operator returns
\* right after it.
ShortCircuit ==
    \A p \in 1..Len(trace) :
        (trace[p].kind \in {"call", "ret"} /\ Caller(p) # 0
           /\ get_expr_node(e.static, <<>>, trace[Caller(p)].ref).type \in {"AND", "OR"}) =>
            LET parent == trace[Caller(p)].ref
                node == get_expr_node(e.static, <<>>, parent)
                stop == StopValue(node.type)
            IN  IF trace[p].kind = "call" THEN
                    /\ Rank(p) <= node.int
                    /\ trace[p].ref = node.data[Rank(p)]
                ELSE
                    /\ p < Len(trace)
                    /\ IF trace[p].val = stop THEN trace[p + 1] = Event("ret", parent, stop)
                       ELSE IF Rank(p) < node.int THEN trace[p + 1].kind = "call"
                       ELSE trace[p + 1] = Event("ret", parent, 1 - stop)

\* C2: in every pbg_evaluate the callback is called once per key of the
\* dynamic arena, in arena order, before the walk starts; in the walk AND
\* and OR visit their children in stored order and visit no child after the
\* first that is false (AND) or true (OR).
C2_CallbacksThenShortCircuit == CallbacksFirst /\ ShortCircuit

\* (&,FALSE,[k]) was walked: k was looked up, the walk gave false, and no
\* event of the walk touches the key.
C2_Witness ==
    /\ pc = "walked"
    /\ src = Group(<<"&">>, <<L_FALSE, L_k>>)
    /\ trace[1] = Event("dict", -1, 0)
    /\ result = 0
    /\ \A p \in 2..Len(trace) : trace[p].ref # -1

\* C3: when pbg_evaluate has returned, e->_dynamic is the key arena again,
\* and the sizes, every static node and every KEY node are what they were
\* when it was entered, after any number of evaluations.
C3_EvaluateLeavesExpression ==
    (pc = "parsed" /\ ret # -1) =>
        /\ e.dynamic = "keys"
        /\ e = before.e
        /\ keys = before.keys

\* An evaluation of an expression with a key and an operator has returned.
C3_Witness ==
    /\ pc = "parsed"
    /\ ret = 1
    /\ e.dynamicsz > 0
    /\ e.staticsz > 0
    /\ before.e.dynamic = "keys"

\* The root is an operator of one of the given types with two children that
\* are literal nodes in the arenas the walk ran over.
RootOver(types, dyn) ==
    /\ e.staticsz > 0
    /\ e.static[1].type \in types
    /\ e.static[1].int = 2
    /\ \A k \in 1..2 :
          get_expr_node(e.static, dyn, e.static[1].data[k]).type \in LiteralTypes

\* C4: (!=,a,b) is true exactly when (=,a,b) is false, for literal children
\* of any kinds and payloads.
C4_NeqNegatesEq ==
    (pc = "walked" /\ RootOver({"NEQ"}, dynamics)) =>
        result = 1 - Walk([e.static EXCEPT ![1].type = "EQ"], dynamics, "0", 0).val

\* The trees rooted at r1 and r2 have the same kinds and child orders, equal
\* STRING, KEY and DATE payloads, and numbers that read the same with two
\* fractional digits.
RECURSIVE Isomorphic(_, _, _, _, _, _)
Isomorphic(s1, d1, r1, s2, d2, r2) ==
    LET a == get_expr_node(s1, d1, r1)
        b == get_expr_node(s2, d2, r2)
    IN  IF IsWild(a) \/ IsWild(b) THEN FALSE
        ELSE /\ a.type = b.type
             /\ IF a.type \in OpTypes THEN
                    /\ a.int = b.int
                    /\ \A k \in 1..a.int :
                          Isomorphic(s1, d1, a.data[k], s2, d2, b.data[k])
                ELSE IF a.type = "NUMBER" THEN NumberText(a.data) = NumberText(b.data)
                ELSE a.int = b.int /\ a.data = b.data

\* C5: parsing the text pbg_gets gives for a parsed group yields a tree
\* isomorphic to the expression.
C5_RoundTrip ==
    (pc = "reparsed" /\ Derivable(src) /\ ~IsLeaf(src)) =>
        Isomorphic(e.static, keys, 0, e2.static, e2.dynamic, 0)

\* C6: after pbg_parse of a text derived from the grammar, a single literal
\* included, static index 0 is allocated and holds the initialised root.
C6_RootAtStaticZero ==
    (pc = "parsed" /\ Derivable(src)) =>
        /\ alloc.numstatic >= 1
        /\ e.staticsz >= 1
        /\ ~IsWild(get_expr_node(e.static, keys, 0))
        /\ e.static[1].type = IF IsLeaf(src) THEN src.alt
                              ELSE pbg_toop(src.sym, 0, Len(src.sym))

\* A child reference selects a created slot of the arena its sign selects.
Resolves(ref) ==
    IF ref < 0 THEN 0 - ref <= e.dynamicsz /\ 0 - ref <= alloc.numdynamic
    ELSE ref < e.staticsz /\ ref < alloc.numstatic

\* C7: after pbg_parse of a group derived from the grammar, the nodes created
\* in each arena are as many as the arena was allocated for, so none was
\* written at or past the allocated size, and every child reference selects
\* a created slot.
C7_ArenasSizedExactly ==
    (pc = "parsed" /\ Derivable(src) /\ ~IsLeaf(src)) =>
        /\ e.staticsz = alloc.numstatic
        /\ e.dynamicsz = alloc.numdynamic
        /\ \A i \in 1..e.staticsz :
              e.static[i].type \in OpTypes =>
                  \A k \in 1..e.static[i].int : Resolves(e.static[i].data[k])

\* The arity contract of the operators.
ArityOK(node) ==
    CASE node.type \in {"NOT", "EXST"} -> node.int = 1
      [] node.type \in {"NEQ", "LT", "LTE", "GT", "GTE"} -> node.int = 2
      [] node.type \in {"AND", "OR"} -> node.int >= 1
      [] node.type = "EQ" -> node.int >= 2
      [] OTHER -> TRUE

\* C8: in every expression pbg_parse produces, each operator node's child
\* list has the length the operator's arity contract asks for.
C8_ArityContract ==
    (pc = "parsed" /\ Derivable(src)) =>
        \A i \in 1..e.staticsz : ArityOK(e.static[i])

\* C9: when a field is no operator and no literal, pbg_parse aborts and
\* leaves no arena behind: no block stays allocated and the expression
\* holds no node.
C9_InvalidLiteralAborts ==
    (pc = "parsed" /\ ~Derivable(src)) =>
        /\ live = {}
        /\ e.staticsz = 0
        /\ e.dynamicsz = 0
        /\ e.static = <<>>

\* An operand of the comparison at the root is no NUMBER.
NonNumberOperand(dyn) ==
    \E k \in 1..2 : get_expr_node(e.static, dyn, e.static[1].data[k]).type # "NUMBER"

\* C10: a walk of LT, LTE, GT or GTE over an operand that is no NUMBER ends
\* with an evaluation error, a result that is neither true nor false.
C10_ComparisonNeedsNumbers ==
    (pc \in {"walked", "crashed"} /\ e.dynamic = "dynamics"
       /\ RootOver({"LT", "LTE", "GT", "GTE"}, dynamics) /\ NonNumberOperand(dynamics)) =>
        /\ pc = "walked"
        /\ result \notin {0, 1}

\* The blocks the expression owns: the two arenas, the child list or payload
\* of every static node that is no boolean, and the name of every key.
OwnedBlocks == ParsedBlocks(e)

\* C11: over pbg_parse, any number of pbg_evaluate calls and one pbg_free,
\* free() is only ever handed a block that is allocated (so no block is
\* released twice, and no pointer of a TRUE, FALSE or UNKNOWN node is
\* released); what the expression owns stays allocated through every
\* evaluation; an evaluation that has returned has released the resolved
\* arena and the payloads the dictionary gave; and after pbg_free no block
\* is left.
C11_EveryBlockReleasedOnce ==
    /\ badfree = {}
    /\ pc \in {"parsed", "resolved", "walked"} => OwnedBlocks \subseteq live
    /\ pc = "parsed" => live = OwnedBlocks
    /\ pc = "freed" => live = {}

(***************************************************************************)
(* pbg_isnumber on its own: the recognizer applied to byte ranges.  Here   *)
(* src is the byte range, str the C string that holds it (the range and    *)
(* the byte pbg_parse leaves after a field, or nothing when the range ends *)
(* the string), and ret what pbg_isnumber returned.                        *)
(***************************************************************************)

\* The longest byte range drawn from the alphabet.
MaxNumLen == 4

\* The alphabet of the number grammar; of the ten digits, '0' and those the
\* examples are written with (is_a_digit tells no other digits apart).
NumBytes == {"0", "1", "2", "3", "5", "+", "-", ".", "e", "E"}

\* The byte ranges: every one up to MaxNumLen and a longer one with every
\* part of the grammar in it.
NumRanges ==
    UNION {[1..k -> NumBytes] : k \in 0..MaxNumLen}
      \cup {<<"-", "1", ".", "5", "E", "-", "3">>}

\* What follows a field in the text pbg_parse reads.
Followers == {<<>>, <<",">>, <<")">>}

InitNum ==
    /\ src \in NumRanges
    /\ str \in {src \o f : f \in Followers}
    /\ pc = "start"
    /\ e = NoExpr
    /\ keys = <<>>
    /\ alloc = [numstatic |-> 0, numdynamic |-> 0]
    /\ dynamics = <<>>
    /\ old = "null"
    /\ result = -1
    /\ ret = -1
    /\ trace = <<>>
    /\ buf = <<>>
    /\ e2 = NoExpr
    /\ live = {}
    /\ badfree = {}
    /\ before = [e |-> NoExpr, keys |-> <<>>]

\* ret = pbg_isnumber(str, n), n the length of the range
IsNumber ==
    /\ pc = "start"
    /\ ret' = IF pbg_isnumber(str, 0, Len(src)) THEN 1 ELSE 0
    /\ pc' = "classified"
    /\ UNCHANGED <<src, str, e, keys, alloc, dynamics, old, result, trace, buf, e2,
                   live, badfree, before>>

NextNum == IsNumber

SpecNum == InitNum /\ [][NextNum]_vars

\* s[a+1..b] is one or more digits.
DigitRun(s, a, b) == b > a /\ \A k \in (a + 1)..b : is_a_digit(s[k])

\* s[a+1..b] is an integer part: a single '0', or a non-zero digit and digits.
IntegerPart(s, a, b) == DigitRun(s, a, b) /\ (s[a + 1] = "0" => b = a + 1)

\* s[c+1..] is nothing, or 'e' or 'E', an optional sign and digits.
ExponentPart(s, c) ==
    \/ c = Len(s)
    \/ /\ IsExp(s[c + 1])
       /\ DigitRun(s, IF c + 2 <= Len(s) /\ IsSign(s[c + 2]) THEN c + 2 ELSE c + 1, Len(s))

\* The number grammar: an optional sign, an integer part, optionally '.' and
\* digits, optionally an exponent.
NumberGrammar(s) ==
    \E a \in {IF Len(s) > 0 /\ IsSign(s[1]) THEN 1 ELSE 0} :
        \E b \in (a + 1)..Len(s) :
            /\ IntegerPart(s, a, b)
            /\ \E c \in b..Len(s) :
                   /\ c = b \/ (s[b + 1] = "." /\ DigitRun(s, b + 1, c))
                   /\ ExponentPart(s, c)

\* C12: pbg_isnumber returns true exactly for the byte ranges of the number
\* grammar: an optional sign, an integer part that is a single '0' or a
\* non-zero digit followed by digits, optionally '.' and at least one digit,
\* optionally 'e' or 'E' with an optional sign and at least one digit.
C12_IsNumberIsTheGrammar ==
    pc = "classified" => (ret = 1 <=> NumberGrammar(src))

====
